---- MODULE Spec2Model ----
(***************************************************************************)
(* Model of the snake game of src/main.rs: the Snake (poll, update,        *)
(* add_tail_block) and the Food (new, eat, position), and of the food       *)
(* placement loop of src/game.rs (Game::move_food).                         *)
(*                                                                         *)
(* Positions are pixel coordinates as in the source (f32 values that are    *)
(* always whole numbers, so integer arithmetic is exact).  The screen is    *)
(* scaled down to four columns and 2 * HalfRows rows: it keeps an even      *)
(* number of columns and rows, as the 18 x 12 grid of the source does, so   *)
(* that the initial head position (half the screen) is a grid cell.  On     *)
(* the small screen a snake meets its own body by running around an edge,   *)
(* as a snake longer than a row or a column does on the full screen.        *)
(***************************************************************************)
EXTENDS Integers, Sequences, FiniteSets, TLC

\* ---------------------------------------------------------------- bounds
HalfRows == 1
MaxLen == 3
MaxInitialSize == 2
\* the clock is read up to MaxElapsedSteps half tick periods after the start,
\* and advances by at most MaxAdvance of them between two reads
MaxElapsedSteps == 10
MaxAdvance == 5
\* grid constructions are tried with a spacing up to MaxSpacing on screens up
\* to MaxSide wide and high
MaxSpacing == 3
MaxSide == 6

\* ------------------------------------------------------------- constants
GRID_SPACING_PX == 40
GRID_SCALE == 30
SCORE_PER_FOOD == 10
TICKS_PER_SECOND == 10
INITIAL_LENGTH == 1
NANOS_PER_SECOND == 1000000000

SCREEN_WIDTH == 4 * GRID_SPACING_PX
SCREEN_HEIGHT == 2 * HalfRows * GRID_SPACING_PX
S_WIDTH_F32 == SCREEN_WIDTH
S_HEIGHT_F32 == SCREEN_HEIGHT
COLS == SCREEN_WIDTH \div GRID_SPACING_PX
ROWS == SCREEN_HEIGHT \div GRID_SPACING_PX

\* game.rs: COLS and ROWS of a screen with as many cells, GRID_SCALE wide
Game_COLS == (4 * GRID_SCALE) \div GRID_SCALE
Game_ROWS == (2 * HalfRows * GRID_SCALE) \div GRID_SCALE

VARIABLES positions, directions, next_direction, active, score, food,
          ret, grew, asked, pc, blocked, new_pos,
          elapsed, tick, tick_ret, trues, last_true,
          alone, buffered,
          grid_in, grid, made,
          segments, direction, prev_direction, state, rs_food, used

\* the TickCounter and its clock, with the history the properties use
tick_vars == <<elapsed, tick, tick_ret, trues, last_true>>

\* history of the polls since the last tick
poll_vars == <<alone, buffered>>

\* the arguments and the outcome of the grid construction, and the parts of
\* the Game constructed so far
grid_vars == <<grid_in, grid, made>>

\* the Snake and the Game of game.rs, with the direction its last update used
rs_vars == <<segments, direction, prev_direction, state, rs_food, used>>

vars == <<positions, directions, next_direction, active, score, food,
          ret, grew, asked, pc, blocked, new_pos, tick_vars, poll_vars,
          grid_vars, rs_vars>>

\* ------------------------------------------------------------- Direction
Direction == {"UP", "DOWN", "LEFT", "RIGHT"}

Vector2(x, y) == [x |-> x, y |-> y]

v(d, scale) ==
    CASE d = "UP" -> Vector2(0, 0 - scale)
      [] d = "DOWN" -> Vector2(0, scale)
      [] d = "LEFT" -> Vector2(0 - scale, 0)
      [] d = "RIGHT" -> Vector2(scale, 0)

VAdd(p, q) == Vector2(p.x + q.x, p.y + q.y)
VSub(p, q) == Vector2(p.x - q.x, p.y - q.y)

Last(s) == s[Len(s)]

Contains(s, e) == \E i \in 1..Len(s) : s[i] = e

\* ------------------------------------------------------------------ Food
None == [some |-> FALSE]
Some(p) == [some |-> TRUE, pos |-> p]

Food_new == Some(Vector2(0, 0))

Food_position(f) == IF f.some THEN f.pos ELSE Vector2(0 - 1, 0 - 1)

\* the values the closure gen_pos of Food::eat can produce
gen_pos == {Vector2(c * GRID_SPACING_PX, r * GRID_SPACING_PX) :
                c \in 0..(COLS - 1), r \in 0..(ROWS - 1)}

\* the values the closure gen_pos of Game::move_food can produce
Game_gen_pos == {Vector2(c * GRID_SCALE, r * GRID_SCALE) :
                     c \in 0..(Game_COLS - 1), r \in 0..(Game_ROWS - 1)}

\* a loop that takes its first sample
eat_retries_never(blk, p) == FALSE

\* the condition that keeps the sampling loop going
eat_retries(blk, p) == Contains(blk, p)

\* a placement that only avoids the head
Food_eat_head_only(blk) == {p \in gen_pos : p # blk[1]}

\* the positions Food::eat can leave in self.position when it returns: a
\* sample that ends the loop
Food_eat(blk) == {p \in gen_pos : ~eat_retries(blk, p)}

\* ----------------------------------------------------------------- Snake
Keys == <<"KEY_W", "KEY_A", "KEY_S", "KEY_D">>
KeySet == {Keys[i] : i \in 1..Len(Keys)}

\* the direction a key asks for
KeyDirection(k) ==
    CASE k = "KEY_W" -> "UP"
      [] k = "KEY_A" -> "LEFT"
      [] k = "KEY_S" -> "DOWN"
      [] k = "KEY_D" -> "RIGHT"

\* the leading direction that makes poll ignore the key
KeyGuard(k) ==
    CASE k = "KEY_W" -> "DOWN"
      [] k = "KEY_A" -> "RIGHT"
      [] k = "KEY_S" -> "UP"
      [] k = "KEY_D" -> "LEFT"

one_block(pos) == Len(pos) = 0

\* a poll without the reversal guard
poll_accepts_always(k, pos, dirs) == TRUE

\* the condition under which poll takes a pressed key
poll_accepts(k, pos, dirs) == one_block(pos) \/ dirs[1] # KeyGuard(k)

\* a tail block that gets a position and no direction
add_tail_block_no_direction(pos, dirs, spacing) ==
    [positions |-> Append(pos, VSub(Last(pos), v(Last(dirs), spacing))),
     directions |-> dirs]

\* a tail block put on the last segment (as Snake::add_tail_block of
\* game/snake.rs does)
add_tail_block_on_last(pos, dirs, spacing) ==
    [positions |-> Append(pos, Last(pos)),
     directions |-> Append(dirs, Last(dirs))]

\* a tail block put one step ahead of the last segment
add_tail_block_ahead(pos, dirs, spacing) ==
    [positions |-> Append(pos, VAdd(Last(pos), v(Last(dirs), spacing))),
     directions |-> Append(dirs, Last(dirs))]

add_tail_block(pos, dirs, spacing) ==
    LET last_pos == Last(pos)
        last_dir == Last(dirs)
    IN [positions |-> Append(pos, VSub(last_pos, v(last_dir, spacing))),
        directions |-> Append(dirs, last_dir)]

RECURSIVE Snake_new_tail(_, _)
Snake_new_tail(s, n) ==
    IF n = 0 THEN s
    ELSE Snake_new_tail(add_tail_block(s.positions, s.directions, GRID_SPACING_PX), n - 1)

Snake_new(initial_size) ==
    Snake_new_tail([positions |-> <<Vector2(S_WIDTH_F32 \div 2, S_HEIGHT_F32 \div 2)>>,
                    directions |-> <<"RIGHT">>],
                   initial_size - 1)

\* the four `if`s of poll, in source order; a later key overrides an earlier
RECURSIVE poll_from(_, _, _, _, _)
poll_from(i, nd, pressed, pos, dirs) ==
    IF i > Len(Keys) THEN nd
    ELSE LET k == Keys[i]
             take == k \in pressed /\ poll_accepts(k, pos, dirs)
         IN poll_from(i + 1, IF take THEN KeyDirection(k) ELSE nd, pressed, pos, dirs)

\* a poll that ignores the keys once a turn is buffered
poll_first_call_wins(nd, pressed, pos, dirs) ==
    IF nd # dirs[1] THEN nd ELSE poll_from(1, nd, pressed, pos, dirs)

poll(nd, pressed, pos, dirs) == poll_from(1, nd, pressed, pos, dirs)

\* a wraparound that re-enters one cell too far
wrap_x_off_by_one(p) ==
    LET p1 == IF p.x < 0 THEN [p EXCEPT !.x = S_WIDTH_F32 - GRID_SPACING_PX] ELSE p
    IN IF p1.x > S_WIDTH_F32 - GRID_SPACING_PX THEN [p1 EXCEPT !.x = GRID_SPACING_PX] ELSE p1

wrap_x(p) ==
    LET p1 == IF p.x < 0 THEN [p EXCEPT !.x = S_WIDTH_F32 - GRID_SPACING_PX] ELSE p
    IN IF p1.x > S_WIDTH_F32 - GRID_SPACING_PX THEN [p1 EXCEPT !.x = 0] ELSE p1

wrap_y(p) ==
    LET p1 == IF p.y < 0 THEN [p EXCEPT !.y = S_HEIGHT_F32 - GRID_SPACING_PX] ELSE p
    IN IF p1.y > S_HEIGHT_F32 - GRID_SPACING_PX THEN [p1 EXCEPT !.y = 0] ELSE p1

wraparound(p) == wrap_y(wrap_x(p))

\* an update that turns the head and leaves the other directions in place
shift_directions_head_only(dirs, nd) == <<nd>> \o SubSeq(dirs, 2, Len(dirs))

\* directions.push_front(next_direction); directions.pop_back()
shift_directions(dirs, nd) == <<nd>> \o SubSeq(dirs, 1, Len(dirs) - 1)

move_segments(pos, dirs) ==
    [i \in 1..Len(pos) |-> wraparound(VAdd(pos[i], v(dirs[i], GRID_SPACING_PX)))]

\* a food test on the last segment instead of the head
eats_food_tail(pos, f) == Last(pos) = Food_position(f)

\* self.head() == food.position()
eats_food(pos, f) == pos[1] = Food_position(f)

\* a collision test that does not leave out the head
self_collision_with_head(pos) == Contains(pos, pos[1])

\* an update that leaves the collision test out
self_collision_never(pos) == FALSE

\* self.positions[1..].contains(&self.head())
self_collision(pos) == Contains(SubSeq(pos, 2, Len(pos)), pos[1])

\* an update without the early return
update_returns_early_never(act) == FALSE

\* the early return of update
update_returns_early(act) == ~act

\* ------------------------------------------------------------------ Grid
NoGrid == [status |-> "none", num_cols |-> 0, num_rows |-> 0, spacing |-> 0]

GridPanic == [status |-> "panic", num_cols |-> 0, num_rows |-> 0, spacing |-> 0]

\* a construction that does not look at the height
Grid_new_width_only(spacing, screen_width, screen_height) ==
    IF ~(spacing > 0) THEN GridPanic
    ELSE IF ~(screen_width % spacing = 0) THEN GridPanic
    ELSE [status |-> "made",
          num_cols |-> screen_width \div spacing,
          num_rows |-> screen_height \div spacing,
          spacing |-> spacing]

\* Grid::new; the screen size is a parameter here, the program reads it from
\* SCREEN_WIDTH and SCREEN_HEIGHT
Grid_new(spacing, screen_width, screen_height) ==
    IF ~(spacing > 0) THEN GridPanic
    ELSE IF ~(screen_width % spacing = 0) THEN GridPanic
    ELSE IF ~(screen_height % spacing = 0) THEN GridPanic
    ELSE [status |-> "made",
          num_cols |-> screen_width \div spacing,
          num_rows |-> screen_height \div spacing,
          spacing |-> spacing]

\* the assertions at the head of Game::init of game.rs, with COLS and ROWS
\* as game.rs defines them
Game_init_asserts(grid_scale, screen_width, screen_height) ==
    IF ~(grid_scale > 0) THEN GridPanic
    ELSE IF ~(screen_width % grid_scale = 0) THEN GridPanic
    ELSE IF ~(screen_height % grid_scale = 0) THEN GridPanic
    ELSE [status |-> "made",
          num_cols |-> screen_width \div grid_scale,
          num_rows |-> screen_height \div grid_scale,
          spacing |-> grid_scale]

\* the fields of Game in the order Game::init evaluates them
GameFields == <<"background", "counter", "grid", "snake", "food">>

\* the fields of Game of game.rs
GameRsFields == <<"state", "tick_counter", "rng", "score", "snake", "food">>

\* ----------------------------------------------------------- TickCounter
\* TickCounter::start: the fields other than the start instant
TickCounter_start(ticks_per_second) ==
    [nanos_per_tick |-> NANOS_PER_SECOND \div ticks_per_second, tick |-> 0]

nanos_per_tick == TickCounter_start(TICKS_PER_SECOND).nanos_per_tick

\* a counter that also reports the tick it has stored
is_next_tick_or_same(e, t) ==
    LET curr == e \div nanos_per_tick
    IN IF curr >= t THEN [ret |-> TRUE, tick |-> curr] ELSE [ret |-> FALSE, tick |-> t]

\* a counter that reports a tick and does not store it
is_next_tick_not_stored(e, t) ==
    LET curr == e \div nanos_per_tick
    IN IF curr > t THEN [ret |-> TRUE, tick |-> t] ELSE [ret |-> FALSE, tick |-> t]

\* TickCounter::is_next_tick with e nanoseconds elapsed since start and t the
\* stored tick: the value returned and the tick stored afterwards
is_next_tick(e, t) ==
    LET curr == e \div nanos_per_tick
    IN IF curr > t THEN [ret |-> TRUE, tick |-> curr] ELSE [ret |-> FALSE, tick |-> t]

\* game/tick.rs
Tick_is_next_tick(e, t) ==
    LET curr == e \div nanos_per_tick
    IN IF curr > t THEN [ret |-> TRUE, tick |-> curr] ELSE [ret |-> FALSE, tick |-> t]

\* ------------------------------------------------- history for properties
\* the direction whose displacement is the negation of that of d
Opposite(d) == CHOOSE e \in Direction : VAdd(v(d, 1), v(e, 1)) = Vector2(0, 0)

\* what the last poll asked for: "reverse" when the only key pressed asks
\* for the reverse of the leading direction
asked_kind(pressed, dirs) ==
    IF pressed = {} THEN "none"
    ELSE IF \E k \in pressed : pressed = {k} /\ KeyDirection(k) = Opposite(dirs[1])
    THEN "reverse"
    ELSE "other"

\* --------------------------------------------------------------- actions
\* ret: what update returned, when the last call was update ("none" after
\* construction and after poll); grew: whether that update appended a tail
\* block; asked: asked_kind of the last poll

\* the counter and the clock at TickCounter::start
TickIdle ==
    /\ elapsed = 0
    /\ tick = TickCounter_start(TICKS_PER_SECOND).tick
    /\ tick_ret = "none"
    /\ trues = 0
    /\ last_true = 0 - 1

\* the grid Game::init of main.rs makes
GridIdle ==
    /\ grid_in = [spacing |-> GRID_SPACING_PX, width |-> SCREEN_WIDTH, height |-> SCREEN_HEIGHT]
    /\ grid = Grid_new(GRID_SPACING_PX, SCREEN_WIDTH, SCREEN_HEIGHT)
    /\ made = GameFields

\* no Game of game.rs
RsIdle ==
    /\ segments = <<>>
    /\ direction = "RIGHT"
    /\ prev_direction = "RIGHT"
    /\ state = "RUNNING"
    /\ rs_food = Vector2(0, 0)
    /\ used = "RIGHT"

PollIdle ==
    /\ alone = "none"
    /\ buffered = "none"

\* the Snake and the Food that Game::init makes
Game_init(sizes) ==
    /\ \E initial_size \in sizes :
          LET s == Snake_new(initial_size)
          IN /\ positions = s.positions
             /\ directions = s.directions
    /\ next_direction = "RIGHT"
    /\ active = TRUE
    /\ score = 0
    /\ food = Food_new
    /\ ret = "none"
    /\ grew = FALSE
    /\ asked = "none"

Init ==
    /\ Game_init(1..MaxInitialSize)
    /\ pc = "game"
    /\ blocked = <<>>
    /\ new_pos = None
    /\ TickIdle
    /\ PollIdle
    /\ GridIdle
    /\ RsIdle

\* Snake::poll with the set of keys that is_key_pressed reports this frame
Poll ==
    /\ pc = "game"
    /\ \E pressed \in SUBSET KeySet :
          /\ next_direction' = poll(next_direction, pressed, positions, directions)
          /\ asked' = asked_kind(pressed, directions)
    /\ ret' = "none"
    /\ grew' = FALSE
    /\ UNCHANGED <<positions, directions, active, score, food, pc, blocked, new_pos>>
    /\ UNCHANGED <<tick_vars, poll_vars, grid_vars, rs_vars>>

\* assert!(self.positions.len() == self.directions.len()) fails
update_panics ==
    /\ ~update_returns_early(active)
    /\ Len(positions) # Len(directions)

\* Snake::update where the assertion holds, with the call of Food::eat it
\* makes; nd is the value of next_direction at the call
Snake_update(nd) ==
    /\ next_direction' = nd
    /\ IF update_returns_early(active)
       THEN /\ ret' = "false"
            /\ grew' = FALSE
            /\ UNCHANGED <<positions, directions, active, score, food>>
       ELSE LET dirs1 == shift_directions(directions, nd)
                pos1 == move_segments(positions, dirs1)
                eats == eats_food(pos1, food)
                grown == add_tail_block(pos1, dirs1, GRID_SPACING_PX)
                pos2 == IF eats THEN grown.positions ELSE pos1
                dirs2 == IF eats THEN grown.directions ELSE dirs1
                dead == self_collision(pos2)
            IN /\ eats => Len(positions) < MaxLen
               /\ positions' = pos2
               /\ directions' = dirs2
               /\ IF eats
                  THEN /\ \E p \in Food_eat(pos2) : food' = Some(p)
                       /\ score' = score + SCORE_PER_FOOD
                  ELSE UNCHANGED <<food, score>>
               /\ grew' = eats
               /\ active' = ~dead
               /\ ret' = IF dead THEN "false" ELSE "true"

\* Snake::update
Update ==
    /\ pc = "game"
    /\ IF update_panics
       THEN /\ pc' = "panic"
            /\ UNCHANGED <<positions, directions, next_direction, active,
                           score, food, ret, grew>>
       ELSE /\ Snake_update(next_direction)
            /\ UNCHANGED pc
    /\ UNCHANGED <<asked, blocked, new_pos>>
    /\ UNCHANGED <<tick_vars, poll_vars, grid_vars, rs_vars>>

Next == Poll \/ Update

Spec == Init /\ [][Next]_vars

\* ------------------------------------------- the food placement loop alone
\* Food::eat (pc = "eat") and Game::move_food (pc = "move_food"), one step
\* per sample, called with `blocked` holding every cell of the grid but one.
RECURSIVE SeqOf(_)
SeqOf(S) == IF S = {} THEN <<>>
            ELSE LET e == CHOOSE x \in S : TRUE IN <<e>> \o SeqOf(S \ {e})

InitEat ==
    /\ LET s == Snake_new(1)
       IN /\ positions = s.positions
          /\ directions = s.directions
    /\ next_direction = "RIGHT"
    /\ active = TRUE
    /\ score = 0
    /\ food = Food_new
    /\ ret = "none"
    /\ grew = FALSE
    /\ asked = "none"
    /\ new_pos = None
    /\ TickIdle
    /\ PollIdle
    /\ GridIdle
    /\ RsIdle
    /\ \/ /\ pc = "eat"
          /\ \E free \in gen_pos : blocked = SeqOf(gen_pos \ {free})
       \/ /\ pc = "move_food"
          /\ \E free \in Game_gen_pos : blocked = SeqOf(Game_gen_pos \ {free})

\* let mut new_pos = gen_pos();
Sample(at, samples) ==
    /\ pc = at
    /\ ~new_pos.some
    /\ \E p \in samples : new_pos' = Some(p)
    /\ UNCHANGED <<positions, directions, next_direction, active, score, food,
                   ret, grew, asked, pc, blocked>>
    /\ UNCHANGED <<tick_vars, poll_vars, grid_vars, rs_vars>>

\* while blocked.contains(&new_pos) { new_pos = gen_pos(); }
Retry(at, samples) ==
    /\ pc = at
    /\ new_pos.some
    /\ eat_retries(blocked, new_pos.pos)
    /\ \E p \in samples : new_pos' = Some(p)
    /\ UNCHANGED <<positions, directions, next_direction, active, score, food,
                   ret, grew, asked, pc, blocked>>
    /\ UNCHANGED <<tick_vars, poll_vars, grid_vars, rs_vars>>

\* self.position = Some(new_pos);   (self.food = new_pos; in game.rs)
Return(at, done) ==
    /\ pc = at
    /\ new_pos.some
    /\ ~eat_retries(blocked, new_pos.pos)
    /\ food' = new_pos
    /\ pc' = done
    /\ UNCHANGED <<positions, directions, next_direction, active, score,
                   ret, grew, asked, blocked, new_pos>>
    /\ UNCHANGED <<tick_vars, poll_vars, grid_vars, rs_vars>>

EatSample == Sample("eat", gen_pos)
EatRetry == Retry("eat", gen_pos)
EatReturn == Return("eat", "eat_done")
MoveFoodSample == Sample("move_food", Game_gen_pos)
MoveFoodRetry == Retry("move_food", Game_gen_pos)
MoveFoodReturn == Return("move_food", "move_food_done")

NextEat ==
    \/ EatSample
    \/ EatRetry
    \/ EatReturn
    \/ MoveFoodSample
    \/ MoveFoodRetry
    \/ MoveFoodReturn

SpecEat == InitEat /\ [][NextEat]_vars

\* a retry that draws a cell `blocked` does not contain
RetryFree == (EatRetry \/ MoveFoodRetry) /\ ~eat_retries(blocked, new_pos'.pos)

\* fair random sampling: the loop keeps running, and a draw that stays
\* possible for ever is made at some time
FairSpecEat == SpecEat /\ WF_vars(NextEat) /\ WF_vars(RetryFree)

\* -------------------------------------------------- the tick counter alone
\* the resolution at which the model reads Instant::elapsed
ClockStep == nanos_per_tick \div 2

InitTick ==
    /\ Game_init({1})
    /\ pc \in {"tick", "tick_rs"}
    /\ blocked = <<>>
    /\ new_pos = None
    /\ TickIdle
    /\ PollIdle
    /\ GridIdle
    /\ RsIdle

\* time passes between two reads of start.elapsed()
ClockAdvance ==
    /\ pc \in {"tick", "tick_rs", "loop", "loop_rs"}
    /\ \E k \in 1..MaxAdvance :
          /\ elapsed + k * ClockStep <= MaxElapsedSteps * ClockStep
          /\ elapsed' = elapsed + k * ClockStep
    /\ tick_ret' = "none"
    /\ UNCHANGED <<tick, trues, last_true>>
    /\ UNCHANGED <<positions, directions, next_direction, active, score, food,
                   ret, grew, asked, pc, blocked, new_pos, poll_vars,
                   grid_vars, rs_vars>>

\* the counter and its history after a call that returned r
Counted(r) ==
    /\ tick' = r.tick
    /\ tick_ret' = IF r.ret THEN "true" ELSE "false"
    /\ trues' = IF r.ret THEN trues + 1 ELSE trues
    /\ last_true' = IF r.ret THEN elapsed ELSE last_true
    /\ UNCHANGED elapsed

\* a call of TickCounter::is_next_tick of main.rs
IsNextTick ==
    /\ pc = "tick"
    /\ Counted(is_next_tick(elapsed, tick))
    /\ UNCHANGED <<positions, directions, next_direction, active, score, food,
                   ret, grew, asked, pc, blocked, new_pos, poll_vars,
                   grid_vars, rs_vars>>

\* a call of TickCounter::is_next_tick of game/tick.rs
TickIsNextTick ==
    /\ pc = "tick_rs"
    /\ Counted(Tick_is_next_tick(elapsed, tick))
    /\ UNCHANGED <<positions, directions, next_direction, active, score, food,
                   ret, grew, asked, pc, blocked, new_pos, poll_vars,
                   grid_vars, rs_vars>>

NextTick == ClockAdvance \/ IsNextTick \/ TickIsNextTick

SpecTick == InitTick /\ [][NextTick]_vars

\* ------------------------------------------------ grid construction alone
InitGrid ==
    /\ Game_init({1})
    /\ pc \in {"grid", "grid_rs"}
    /\ blocked = <<>>
    /\ new_pos = None
    /\ TickIdle
    /\ PollIdle
    /\ RsIdle
    /\ grid_in \in [spacing : (0 - 1)..MaxSpacing, width : (0 - MaxSpacing)..MaxSide,
                     height : 0..MaxSide]
    /\ grid = NoGrid
    /\ made = <<>>

GridOthers == <<positions, directions, next_direction, active, score, food,
                ret, grew, asked, pc, blocked, new_pos, tick_vars, poll_vars, rs_vars>>

\* Game::init of main.rs up to the return of Grid::new: the background and
\* the counter are evaluated first
GridNew ==
    /\ pc = "grid"
    /\ grid = NoGrid
    /\ grid' = Grid_new(grid_in.spacing, grid_in.width, grid_in.height)
    /\ made' = IF grid'.status = "made" THEN SubSeq(GameFields, 1, 3) ELSE SubSeq(GameFields, 1, 2)
    /\ UNCHANGED <<grid_in, GridOthers>>

\* the rest of Game::init of main.rs
GameInitRest ==
    /\ pc = "grid"
    /\ grid.status = "made"
    /\ made # GameFields
    /\ made' = GameFields
    /\ UNCHANGED <<grid_in, grid, GridOthers>>

\* the assertions of Game::init of game.rs
GameRsAsserts ==
    /\ pc = "grid_rs"
    /\ grid = NoGrid
    /\ grid' = Game_init_asserts(grid_in.spacing, grid_in.width, grid_in.height)
    /\ made' = <<>>
    /\ UNCHANGED <<grid_in, GridOthers>>

\* the rest of Game::init of game.rs
GameRsInitRest ==
    /\ pc = "grid_rs"
    /\ grid.status = "made"
    /\ made # GameRsFields
    /\ made' = GameRsFields
    /\ UNCHANGED <<grid_in, grid, GridOthers>>

NextGrid == GridNew \/ GameInitRest \/ GameRsAsserts \/ GameRsInitRest

SpecGrid == InitGrid /\ [][NextGrid]_vars

\* ---------------------------------------------------------- the frame loop
\* Game::init makes a snake of one block
InitGame ==
    /\ Game_init({1})
    /\ pc = "loop"
    /\ blocked = <<>>
    /\ new_pos = None
    /\ TickIdle
    /\ PollIdle
    /\ GridIdle
    /\ RsIdle

\* the direction of the last key, in the order poll tests them, that is
\* pressed and does not ask for the reverse of the leading direction
LastAccepted(pressed, dirs) ==
    LET ok == {i \in 1..Len(Keys) :
                 Keys[i] \in pressed /\ KeyDirection(Keys[i]) # Opposite(dirs[1])}
    IN IF ok = {} THEN "none"
       ELSE KeyDirection(Keys[CHOOSE i \in ok : \A j \in ok : j <= i])

\* a Game::update that runs Snake::update in every frame
frame_ticks_always(t) == TRUE

\* `if self.counter.is_next_tick()` of Game::update
frame_ticks(t) == t.ret

\* a main that stays in its loop
main_breaks_never(r) == FALSE

\* `if !game_handle.update(&mut rl) { break; }` of main, r what Snake::update
\* returned in the frame ("none" when it was not called)
main_breaks(r) == r = "false"

\* one pass of the loop of main up to the draw: Game::update, that is
\* Snake::poll, then TickCounter::is_next_tick, then Snake::update on a tick
Frame ==
    /\ pc = "loop"
    /\ \E pressed \in SUBSET KeySet :
          LET nd == poll(next_direction, pressed, positions, directions)
              t == is_next_tick(elapsed, tick)
              la == LastAccepted(pressed, directions)
          IN /\ Counted(t)
             /\ asked' = asked_kind(pressed, directions)
             /\ alone' = poll(directions[1], pressed, positions, directions)
             /\ buffered' = IF la # "none" THEN la
                             ELSE IF ret # "none" THEN "none" ELSE buffered
             /\ IF frame_ticks(t)
                THEN IF update_panics
                     THEN /\ pc' = "panic"
                          /\ next_direction' = nd
                          /\ UNCHANGED <<positions, directions, active, score,
                                         food, ret, grew>>
                     ELSE /\ Snake_update(nd)
                          /\ pc' = IF main_breaks(ret') THEN "exited" ELSE "loop"
                ELSE /\ next_direction' = nd
                     /\ ret' = "none"
                     /\ grew' = FALSE
                     /\ UNCHANGED <<positions, directions, active, score, food, pc>>
    /\ UNCHANGED <<blocked, new_pos, grid_vars, rs_vars>>

\* rl.window_should_close() holds at the head of the loop
WindowClose ==
    /\ pc = "loop"
    /\ pc' = "closed"
    /\ UNCHANGED <<positions, directions, next_direction, active, score, food,
                   ret, grew, asked, blocked, new_pos, tick_vars, poll_vars,
                   grid_vars, rs_vars>>

NextGame == ClockAdvance \/ Frame \/ WindowClose

SpecGame == InitGame /\ [][NextGame]_vars

\* ------------------------------------------------- the variant of game.rs
\* game/snake.rs: the screen, Game_COLS by Game_ROWS squares of GRID_SCALE
Rs_S_WIDTH_F32 == Game_COLS * GRID_SCALE
Rs_S_HEIGHT_F32 == Game_ROWS * GRID_SCALE

\* what get_key_pressed can return
KeyInputs == KeySet \cup {"NONE", "KEY_OTHER"}

\* Snake::new of game/snake.rs
Rs_Snake_new ==
    LET head == Vector2((Game_COLS \div 2) * GRID_SCALE, (Game_ROWS \div 2) * GRID_SCALE)
    IN [i \in 1..INITIAL_LENGTH |->
          Vector2(head.x - (i - 1) * v("RIGHT", GRID_SCALE).x,
                  head.y - (i - 1) * v("RIGHT", GRID_SCALE).y)]

Rs_one_block(seg) == Len(seg) = 1

\* a guard on the direction the keys have already changed
handle_input_accepts_on_direction(k, seg, dir, prev) ==
    Rs_one_block(seg) \/ dir # KeyGuard(k)

\* the condition of each arm of the match of handle_input
handle_input_accepts(k, seg, dir, prev) ==
    Rs_one_block(seg) \/ prev # KeyGuard(k)

\* Snake::handle_input: the direction afterwards
handle_input(input, seg, dir, prev) ==
    IF input = "NONE" THEN dir
    ELSE IF input \in KeySet /\ handle_input_accepts(input, seg, dir, prev)
    THEN KeyDirection(input)
    ELSE dir

\* the wraparound of Snake::update of game/snake.rs
Rs_wraparound(next) ==
    LET x1 == IF next.x < 0 THEN Rs_S_WIDTH_F32 - GRID_SCALE ELSE next.x
        x2 == IF x1 > Rs_S_WIDTH_F32 - GRID_SCALE THEN 0 ELSE x1
        y1 == IF next.y < 0 THEN Rs_S_HEIGHT_F32 - GRID_SCALE ELSE next.y
        y2 == IF y1 > Rs_S_HEIGHT_F32 - GRID_SCALE THEN 0 ELSE y1
    IN Vector2(x2, y2)

\* Snake::update of game/snake.rs: the segments afterwards
Rs_update(seg, dir) ==
    LET next == Rs_wraparound(VAdd(seg[1], v(dir, GRID_SCALE)))
    IN <<next>> \o SubSeq(seg, 1, Len(seg) - 1)

\* Snake::add_tail_block of game/snake.rs
Rs_add_tail_block(seg) == Append(seg, Last(seg))

\* self.snake.tail_iter().any(|v| *v == self.snake.head())
Rs_tail_hit(seg) == \E i \in 2..Len(seg) : seg[i] = seg[1]

\* the positions Game::move_food can leave in food
Rs_move_food(body) == {p \in Game_gen_pos : ~Contains(body, p)}

\* Game::init of game.rs, the assertions passed
InitGameRs ==
    /\ Game_init({1})
    /\ pc = "loop_rs"
    /\ blocked = <<>>
    /\ new_pos = None
    /\ TickIdle
    /\ PollIdle
    /\ GridIdle
    /\ state = "RUNNING"
    /\ segments = Rs_Snake_new
    /\ direction = "RIGHT"
    /\ prev_direction = "RIGHT"
    /\ rs_food \in Rs_move_food(segments)
    /\ used = "RIGHT"

\* Game::update of game.rs; nothing in it looks at state
GameRsUpdate ==
    /\ pc = "loop_rs"
    /\ \E input \in KeyInputs :
          LET dir1 == handle_input(input, segments, direction, prev_direction)
              t == Tick_is_next_tick(elapsed, tick)
              seg1 == Rs_update(segments, dir1)
              eats == seg1[1] = rs_food
              seg2 == IF eats THEN Rs_add_tail_block(seg1) ELSE seg1
          IN /\ Counted(t)
             /\ direction' = dir1
             /\ asked' = IF input = "NONE" THEN "none"
                          ELSE IF input \in KeySet /\ KeyDirection(input) = Opposite(prev_direction)
                          THEN "reverse"
                          ELSE "other"
             /\ IF t.ret
                THEN /\ eats => Len(segments) < MaxLen
                     /\ segments' = seg2
                     /\ prev_direction' = dir1
                     /\ used' = dir1
                     /\ state' = IF Rs_tail_hit(seg1) THEN "ENDED" ELSE state
                     /\ IF eats
                        THEN /\ rs_food' \in Rs_move_food(seg2)
                             /\ score' = score + SCORE_PER_FOOD
                        ELSE UNCHANGED <<rs_food, score>>
                ELSE UNCHANGED <<segments, prev_direction, used, state,
                                 rs_food, score>>
    /\ UNCHANGED <<positions, directions, next_direction, active, food,
                   ret, grew, pc, blocked, new_pos, poll_vars, grid_vars>>

NextGameRs == ClockAdvance \/ GameRsUpdate

SpecGameRs == InitGameRs /\ [][NextGameRs]_vars

\* ------------------------------------------------------------ properties
UpdateCalled == ret' # "none"
PollCalled == ret' = "none"
HeadOnBody(pos) == \E i \in 2..Len(pos) : pos[i] = pos[1]
InGrid(p) == /\ 0 <= p.x /\ p.x < SCREEN_WIDTH
             /\ 0 <= p.y /\ p.y < SCREEN_HEIGHT

\* C1: with more than one segment, a poll that asks for the reverse of
\* directions[0] leaves next_direction as it is, and a tick never moves the
\* head in the reverse of the direction of the tick before
C1_NoReversal ==
    [][Len(positions) > 1 =>
         /\ (PollCalled /\ asked' = "reverse") => next_direction' = next_direction
         /\ (UpdateCalled /\ active) =>
               /\ directions'[1] # Opposite(directions[1])
               /\ positions'[1] = wraparound(VAdd(positions[1], v(directions'[1], GRID_SPACING_PX)))]_vars

C1_Witness ==
    /\ ret = "true"
    /\ asked = "reverse"
    /\ Len(positions) > 2
    /\ directions[1] = directions[2]

\* C2: with one segment, a poll that asks for the reverse of directions[0]
\* sets next_direction to it
C2_ReverseAcceptedAtLengthOne ==
    [][(Len(positions) = 1 /\ PollCalled /\ asked' = "reverse")
          => next_direction' = Opposite(directions[1])]_vars

\* C3: positions and directions have the same length, at least 1, and the
\* assertion of update has not failed
C3_SameLength ==
    /\ Len(positions) = Len(directions)
    /\ Len(positions) >= 1
    /\ pc # "panic"

C3_Witness ==
    /\ pc = "game"
    /\ grew
    /\ Len(positions) = MaxLen
    /\ Len(directions) = MaxLen

\* C4: a tick of an active snake whose head lands on the food adds one
\* segment and 10 to the score; any other tick leaves both as they are
C4_GrowthAndScore ==
    [][UpdateCalled =>
         IF active /\ positions'[1] = Food_position(food)
         THEN Len(positions') = Len(positions) + 1 /\ score' = score + 10
         ELSE Len(positions') = Len(positions) /\ score' = score]_vars

C4_Witness ==
    /\ grew
    /\ ret = "true"
    /\ score = 20
    /\ Len(positions) >= 3

\* C5: the tail block that update appends is the old last segment's position
\* minus its last displacement, and no other segment is at that position
C5_NewTailIsFree ==
    grew =>
       LET n == Len(positions)
       IN /\ positions[n] = VSub(positions[n - 1], v(directions[n - 1], GRID_SPACING_PX))
          /\ \A i \in 1..(n - 1) : positions[i] # positions[n]

\* the last segment has just gone around a screen edge
C5_Witness ==
    /\ grew
    /\ Len(positions) >= 3
    /\ ~InGrid(Last(positions))

\* C6: between ticks the food is on no segment of the snake
C6_FoodOffSnake ==
    pc = "game" => \A i \in 1..Len(positions) : positions[i] # Food_position(food)

C6_Witness ==
    /\ pc = "game"
    /\ grew
    /\ Len(positions) = MaxLen
    /\ food # Food_new

\* C7: with every cell but one occupied, food placement never leaves the
\* food on an occupied cell and ends with the food on the free cell
C7_PlacementFindsFreeCell ==
    /\ [](pc \in {"eat_done", "move_food_done"} => ~Contains(blocked, Food_position(food)))
    /\ <>(pc \in {"eat_done", "move_food_done"})

C7_Witness ==
    /\ pc \in {"eat_done", "move_food_done"}
    /\ Len(blocked) = COLS * ROWS - 1
    /\ ~Contains(blocked, Food_position(food))
    /\ new_pos = food

\* C8: until the first Food::eat (the score is 0 until then) Food::position
\* is a position outside the grid
C8_SentinelOutsideGrid ==
    (pc = "game" /\ score = 0) => ~InGrid(Food_position(food))

\* C9: update returns false and clears active exactly on the tick that puts
\* the head on another segment, returns false ever after, and returns true
\* on every other tick of an active snake
C9_CollisionEndsGame ==
    [][UpdateCalled =>
         IF active
         THEN /\ HeadOnBody(positions') => (ret' = "false" /\ ~active')
              /\ ~HeadOnBody(positions') => (ret' = "true" /\ active')
         ELSE ret' = "false" /\ ~active']_vars

C9_Witness ==
    /\ ret = "false"
    /\ ~active
    /\ HeadOnBody(positions)

\* C10: update of an inactive snake returns false and changes nothing, and
\* an inactive snake stays inactive
C10_InactiveIsTerminal ==
    [][~active =>
         /\ ~active'
         /\ UpdateCalled =>
               /\ ret' = "false"
               /\ UNCHANGED <<positions, directions, next_direction, score, active, food>>]_vars

\* poll of the inactive snake, then update
C10_Witness ==
    /\ ~active
    /\ ret = "false"
    /\ asked = "other"
    /\ next_direction # directions[1]

\* C11: on a tick of an active snake a segment that leaves the screen over an
\* edge comes back in at the opposite edge, on the same row or column
C11_Wraparound ==
    [][(UpdateCalled /\ active) =>
         \A i \in 1..Len(positions) :
            LET p == positions[i]
                q == positions'[i]
                d == directions'[i]
            IN /\ (p.x = SCREEN_WIDTH - GRID_SPACING_PX /\ d = "RIGHT") => (q.x = 0 /\ q.y = p.y)
               /\ (p.x = 0 /\ d = "LEFT") => (q.x = SCREEN_WIDTH - GRID_SPACING_PX /\ q.y = p.y)
               /\ (p.y = SCREEN_HEIGHT - GRID_SPACING_PX /\ d = "DOWN") => (q.y = 0 /\ q.x = p.x)
               /\ (p.y = 0 /\ d = "UP") => (q.y = SCREEN_HEIGHT - GRID_SPACING_PX /\ q.x = p.x)]_vars

\* the head has just come in at the left edge, a body segment at the right
C11_Witness ==
    /\ ret = "true"
    /\ Len(positions) >= 2
    /\ positions[1].x = 0 /\ directions[1] = "RIGHT"
    /\ \E i \in 2..Len(positions) :
          positions[i].x = SCREEN_WIDTH - GRID_SPACING_PX /\ directions[i] = "LEFT"

GridCoordinate(p) ==
    /\ InGrid(p)
    /\ p.x % GRID_SPACING_PX = 0
    /\ p.y % GRID_SPACING_PX = 0

\* C12: every segment position and the food position is a grid coordinate
C12_GridCoordinates ==
    pc = "game" =>
       /\ \A i \in 1..Len(positions) : GridCoordinate(positions[i])
       /\ GridCoordinate(Food_position(food))

\* C18: on a tick of an active snake every segment but the head takes the
\* position its predecessor had before the tick
C18_FollowTheLeader ==
    [][(UpdateCalled /\ active) =>
         \A i \in 2..Len(positions) : positions'[i] = positions[i - 1]]_vars

\* the last segment, appended outside the grid on the tick before, comes in
\* at the edge its predecessor came in at
C18_Witness ==
    /\ ret = "true"
    /\ ~grew
    /\ Len(positions) = MaxLen
    /\ score = SCORE_PER_FOOD * (MaxLen - 1)
    /\ LET n == Len(positions)
       IN \/ positions[n].x = 0 /\ directions[n] = "RIGHT"
          \/ positions[n].y = 0 /\ directions[n] = "DOWN"

\* a step that is a call of is_next_tick
TickCalled == tick_ret' # "none"

\* C13: is_next_tick returns true and stores the index of the tick period the
\* elapsed time lies in exactly when that index is greater than the stored
\* one, and otherwise returns false and leaves the stored index alone
C13_TickContract ==
    [][TickCalled =>
         \E k \in 0..(MaxElapsedSteps + 1) :
            /\ k * nanos_per_tick <= elapsed
            /\ elapsed < (k + 1) * nanos_per_tick
            /\ IF k > tick
               THEN tick_ret' = "true" /\ tick' = k
               ELSE tick_ret' = "false" /\ tick' = tick]_vars

C13_Witness == tick_ret = "true" /\ tick = 3 /\ trues = 2 /\ elapsed > tick * nanos_per_tick

\* C14: the calls that return true number at most one per tick period of
\* elapsed time, two of them never fall into the same period, and a call
\* that reads the elapsed time of a call that returned true returns false
C14_OncePerPeriod ==
    [][TickCalled =>
         /\ trues' * nanos_per_tick <= elapsed'
         /\ (tick_ret' = "true" /\ last_true >= 0) =>
               (last_true \div nanos_per_tick) < (elapsed' \div nanos_per_tick)
         /\ last_true = elapsed' => tick_ret' = "false"]_vars

C14_Witness == tick_ret = "false" /\ last_true = elapsed /\ trues >= 2

\* d divides n, without the remainder operator
Divides(d, n) == \E q \in (0 - MaxSide)..MaxSide : q * d = n

\* C17: the grid construction panics, with no snake and no food made and no
\* Game returned, when the spacing is not positive or does not divide the
\* screen width or the screen height; otherwise it succeeds with
\* num_cols = width / spacing and num_rows = height / spacing
C17_GridConstruction ==
    (pc \in {"grid", "grid_rs"} /\ grid # NoGrid) =>
        LET bad == \/ grid_in.spacing <= 0
                   \/ ~Divides(grid_in.spacing, grid_in.width)
                   \/ ~Divides(grid_in.spacing, grid_in.height)
        IN IF bad
           THEN /\ grid.status = "panic"
                /\ \A i \in 1..Len(made) : made[i] \notin {"grid", "snake", "food", "score", "state"}
           ELSE /\ grid.status = "made"
                /\ grid.num_cols * grid_in.spacing = grid_in.width
                /\ grid.num_rows * grid_in.spacing = grid_in.height

C17_Witness ==
    /\ pc = "grid"
    /\ grid.status = "panic"
    /\ grid_in.spacing = 2 /\ grid_in.width = 4 /\ grid_in.height = 3

\* a step that is one call of Game::update from the loop of main
FrameCalled == pc = "loop" /\ pc' # "closed" /\ tick_ret' # "none"

\* q is the cell next to p in direction d, the screen edges joined
OneStep(p, q, d) ==
    LET dx == IF d = "RIGHT" THEN 1 ELSE IF d = "LEFT" THEN 0 - 1 ELSE 0
        dy == IF d = "DOWN" THEN 1 ELSE IF d = "UP" THEN 0 - 1 ELSE 0
    IN /\ q.x = (p.x + dx * GRID_SPACING_PX + SCREEN_WIDTH) % SCREEN_WIDTH
       /\ q.y = (p.y + dy * GRID_SPACING_PX + SCREEN_HEIGHT) % SCREEN_HEIGHT

\* C15: a frame runs Snake::update exactly when the elapsed time has entered
\* a later tick period than the stored one, after the poll of that frame; the
\* head then advances one cell however many periods have passed, and a frame
\* without a tick leaves positions, directions and score alone
C15_OneUpdatePerTickFrame ==
    [][FrameCalled =>
         /\ (tick_ret' = "true") <=> (elapsed \div nanos_per_tick > tick)
         /\ (ret' # "none") <=> (tick_ret' = "true")
         /\ tick_ret' = "false" =>
               positions' = positions /\ directions' = directions /\ score' = score
         /\ tick_ret' = "true" =>
               /\ directions'[1] = next_direction'
               /\ OneStep(positions[1], positions'[1], directions'[1])
               /\ Len(positions') \in {Len(positions), Len(positions) + 1}
               /\ score' \in {score, score + SCORE_PER_FOOD}]_vars

C15_Witness ==
    /\ pc = "loop"
    /\ tick_ret = "true" /\ ret = "true"
    /\ trues = 1 /\ tick >= 2
    /\ positions = <<Vector2(((COLS \div 2) + 1) * GRID_SPACING_PX, (ROWS \div 2) * GRID_SPACING_PX)>>

\* C16: main leaves its loop through the break in exactly the frame in which
\* the snake becomes inactive, Game::update returns false in no other frame,
\* and nothing is polled or updated afterwards
C16_SessionEndsOnInactive ==
    [][/\ FrameCalled =>
            /\ (pc' = "exited") <=> (active /\ ~active')
            /\ (ret' = "false") <=> (pc' = "exited")
            /\ active' => pc' = "loop"
       /\ pc = "exited" => UNCHANGED vars]_vars

C16_Witness ==
    /\ pc = "exited"
    /\ ~active /\ ret = "false" /\ tick_ret = "true"
    /\ HeadOnBody(positions)

\* C19 as stated: the direction the head takes on a tick is the one the last
\* poll before it would give by itself; stated for the polls that see a key
\* pressed and for snakes of two blocks and more
C19_LastCallOnly ==
    [][(FrameCalled /\ tick_ret' = "true" /\ active /\ asked' # "none"
          /\ Len(positions) >= 2) =>
         directions'[1] = alone']_vars

\* C19: the direction the head takes on a tick is that of the last key press
\* since the previous tick that does not ask for the reverse of the direction
\* the head last moved in; with no such key press the head keeps its direction
C19_LastAcceptedCall ==
    [][(FrameCalled /\ tick_ret' = "true" /\ active) =>
         directions'[1] = IF buffered' = "none" THEN directions[1] ELSE buffered']_vars

C19_Witness ==
    /\ ret = "true" /\ tick_ret = "true"
    /\ asked = "reverse"
    /\ buffered # "none"
    /\ alone # buffered
    /\ directions[1] = buffered
    /\ Len(positions) >= 2

\* a step of Game::update of game.rs in which Snake::update ran
RsUpdated == pc = "loop_rs" /\ tick_ret' = "true"

\* C20: in game.rs an update of a snake of more than one segment never uses
\* the reverse of the direction the update before it used, whatever keys were
\* handled in between
C20_NoReversalBetweenUpdates ==
    [][(RsUpdated /\ Len(segments) > 1) => used' # Opposite(used)]_vars

C20_Witness ==
    /\ pc = "loop_rs"
    /\ tick_ret = "true"
    /\ asked = "reverse"
    /\ Len(segments) = 3
    /\ used \in {"UP", "DOWN"}
    /\ segments[2].y = segments[3].y /\ segments[2].x # segments[3].x

\* C21: while the snake is active no two of its segments are at the same
\* position
C21_SegmentsDistinct ==
    (pc = "game" /\ active) =>
        \A i, j \in 1..Len(positions) : i # j => positions[i] # positions[j]

C21_Witness ==
    /\ pc = "game"
    /\ active /\ ret = "true" /\ ~grew
    /\ Len(positions) = MaxLen
    /\ positions[1].y # positions[MaxLen].y

\* C22: a tick on which the head lands on the food grows the snake, adds to
\* the score, finds no segment at the head's position and returns true, so
\* no tick both eats and makes the snake inactive
C22_EatingTickSurvives ==
    [][(UpdateCalled /\ active /\ positions'[1] = Food_position(food)) =>
         /\ Len(positions') = Len(positions) + 1
         /\ score' = score + SCORE_PER_FOOD
         /\ ~HeadOnBody(positions')
         /\ active'
         /\ ret' = "true"]_vars

C22_Witness ==
    /\ pc = "game"
    /\ grew /\ active /\ ret = "true"
    /\ Len(positions) = MaxLen
    /\ InGrid(Last(positions))
    /\ positions[1].y = Last(positions).y

====
